---- MODULE Spec2Model ----
(***************************************************************************)
(* Session-scoped state bridge of the context-awareness hooks.             *)
(*                                                                         *)
(* Every hook is a fresh process: it reads its whole standard input, then  *)
(* performs its storage operations on os.tmpdir() one after the other and  *)
(* exits.  The state of the system is the temp directory plus the hook     *)
(* processes that are in flight; a process is interleaved with the others  *)
(* between any two of its storage operations.  One storage operation       *)
(* (readFileSync, writeFileSync, unlinkSync, readdirSync) is one step.     *)
(*                                                                         *)
(* Percentages are held in tenths of a percent (42% is 420, 79.6% is 796)  *)
(* and money in cents, so that Math.round has something to round.          *)
(***************************************************************************)
EXTENDS Integers, Sequences, FiniteSets, TLC

VARIABLES
    tmpdir,     \* os.tmpdir(): file name -> content, for the files that exist
    proc,       \* the hook processes in flight, by slot
    exited,     \* the process that exited in the last step, if one did
    calls,      \* per session id: Event Counter invocations received since
                \* its counter file was last absent with no Event Counter at
                \* work on it
    emitted,    \* per session id: notifications written out of those calls
    reaped      \* per session key: "no" while the session is open; once a
                \* Session Reaper carrying the key has exited and no Snapshot
                \* Writer or Event Counter for the key was started since,
                \* "clean" if none was in flight either while it ran, and
                \* "done" otherwise

vars == <<tmpdir, proc, exited, calls, emitted, reaped>>

----------------------------------------------------------------------------
(* Bounds of the model *)

MaxProcs == 2         \* hook processes in flight at the same time
MaxCalls == 5         \* Event Counter invocations counted at any one time
MaxSerialCalls == 10  \* the same, when the host runs one hook at a time
MaxRaceCalls == 6     \* the same, when the calls of one session overlap

Procs == 1..MaxProcs


\* Session keys the host hands out.
Keys == {"s1", "s2"}

----------------------------------------------------------------------------
(* Program constants *)

EVERY_N == 5

BRIDGE_PREFIX  == "claude-context-usage-"
COUNTER_PREFIX == "claude-tool-counter-"

STATUSLINE  == "statusline-bridge.js"
TOOL        == "inject-context-on-tool.js"
PROMPT      == "inject-context-on-prompt.js"
SETUP       == "setup.js"
CLEANUP_JS  == "session-cleanup.js"
CLEANUP_CJS == "session-cleanup.cjs"

----------------------------------------------------------------------------
(* JavaScript values *)

\* A JSON object is a function from its field names to values; a field that
\* is absent (or null) is simply not in the domain.
EmptyObject == [f \in {} |-> 0]

Has(obj, f) == f \in DOMAIN obj

\* obj.f ?? dflt
Nullish(obj, f, dflt) == IF Has(obj, f) THEN obj[f] ELSE dflt

\* obj.f || dflt, for a string field
OrString(obj, f, dflt) == IF Has(obj, f) /\ obj[f] # "" THEN obj[f] ELSE dflt

\* obj.f || dflt, for a number field
OrNumber(obj, f, dflt) == IF Has(obj, f) /\ obj[f] # 0 THEN obj[f] ELSE dflt

\* obj.f || {}, for an object field
OrObject(obj, f) == IF Has(obj, f) THEN obj[f] ELSE EmptyObject

\* Text is either plain text or the serialisation of a JSON value.
PlainText(s) == [text |-> s]

JSONstringify(v) == [json |-> v]

\* JSON.parse: the tagged result; "error" stands for the SyntaxError thrown.
JSONparse(raw) ==
    IF "json" \in DOMAIN raw THEN raw.json ELSE [parse |-> "error"]

JsObject(o) == [parse |-> "object", object |-> o]
JsNull      == [parse |-> "null"]

DigitChars == "0123456789"

IsDigit(c) == \E d \in 1..10 : SubSeq(DigitChars, d, d) = c

DigitVal(c) == (CHOOSE d \in 1..10 : SubSeq(DigitChars, d, d) = c) - 1

\* Value of the longest run of decimal digits s starts with at position i,
\* given the value acc of the digits before i; <<>> when there were none.
RECURSIVE ParseDigits(_, _, _, _)
ParseDigits(s, i, acc, seen) ==
    IF i <= Len(s) /\ IsDigit(SubSeq(s, i, i))
    THEN ParseDigits(s, i + 1, acc * 10 + DigitVal(SubSeq(s, i, i)), TRUE)
    ELSE IF seen THEN <<acc>> ELSE <<>>

\* parseInt(text, 10): <<n>>, or <<>> for NaN.
ParseInt(raw) ==
    IF "text" \notin DOMAIN raw THEN <<>>
    ELSE LET s == raw.text IN
         IF Len(s) >= 1 /\ SubSeq(s, 1, 1) = "-"
         THEN LET m == ParseDigits(s, 2, 0, FALSE) IN
              IF m = <<>> THEN <<>> ELSE <<0 - m[1]>>
         ELSE ParseDigits(s, 1, 0, FALSE)

\* x || 0, for the result of parseInt
OrZero(m) == IF m = <<>> THEN 0 ELSE m[1]

RECURSIVE NatToString(_)
NatToString(n) ==
    IF n < 10 THEN SubSeq(DigitChars, n + 1, n + 1)
    ELSE NatToString(n \div 10) \o SubSeq(DigitChars, (n % 10) + 1, (n % 10) + 1)

\* String(n)
StringOf(n) == IF n < 0 THEN "-" \o NatToString(0 - n) ELSE NatToString(n)

\* Math.floor in its place: the fraction is cut off.
MathRound_Floor(x, unit) == x \div unit

\* Math.round of a value held in units of 1/unit: nearest, halves upwards.
MathRound(x, unit) == (2 * x + unit) \div (2 * unit)

\* f.startsWith(prefix)
StartsWith(f, prefix) ==
    Len(f) >= Len(prefix) /\ SubSeq(f, 1, Len(prefix)) = prefix

----------------------------------------------------------------------------
(* The namespace *)

\* One bridge file for all sessions, as it would be without the session id
\* in the name.
bridgePath_Global(sessionId) == "claude-context-usage.json"

\* bridgePath(sessionId), without the directory
bridgePath(sessionId) == BRIDGE_PREFIX \o sessionId \o ".json"

\* The count kept in the bridge file of the session.
counterFile_InBridge(sessionId) == BRIDGE_PREFIX \o sessionId \o ".json"

\* counterFile, without the directory
counterFile(sessionId) == COUNTER_PREFIX \o sessionId

\* A write that patches a JSON object already in the file: the fields of
\* the new object are set, the model of the old one is kept.
writeFileSync_Patch(dir, f, content) ==
    LET patches == /\ f \in DOMAIN dir
                   /\ JSONparse(dir[f]).parse = "object"
                   /\ JSONparse(content).parse = "object"
        old == JSONparse(dir[f]).object
        new == JSONparse(content).object
    IN  [g \in (DOMAIN dir) \cup {f} |->
            IF g # f THEN dir[g]
            ELSE IF ~patches THEN content
            ELSE JSONstringify(JsObject(
                     [h \in DOMAIN new |->
                         IF h = "model" /\ h \in DOMAIN old THEN old[h] ELSE new[h]]))]

\* fs.writeFileSync(f, content): an unconditional overwrite of the whole file
writeFileSync(dir, f, content) ==
    [g \in (DOMAIN dir) \cup {f} |-> IF g = f THEN content ELSE dir[g]]

\* An unlinkSync that removes nothing.
unlinkSync_Keeps(dir, f) == dir

\* Record files of another user's sessions in the shared temp directory:
\* they match the prefixes, and unlinking them throws EPERM.
OtherUsersFiles == {"claude-context-usage-root.json"}

\* fs.unlinkSync(f) throws: ENOENT for a file that does not exist, EPERM for
\* one that is not ours to delete.
UnlinkThrows(dir, f) == f \notin DOMAIN dir \/ f \in OtherUsersFiles

\* fs.unlinkSync(f); when it throws, the directory is as it was, and it is
\* up to the caller to swallow the error.
unlinkSync(dir, f) ==
    IF UnlinkThrows(dir, f) THEN dir ELSE [g \in (DOMAIN dir) \ {f} |-> dir[g]]

\* fs.readdirSync(tmpDir)
readdirSync(dir) == DOMAIN dir

\* The filter without the dash that ends each prefix.
SweepMatches_NoDash(f) ==
    StartsWith(f, "claude-context-usage") \/ StartsWith(f, "claude-tool-counter")

\* The filter of the fallback sweep.
SweepMatches(f) ==
    StartsWith(f, BRIDGE_PREFIX) \/ StartsWith(f, COUNTER_PREFIX)

\* Files of other programs that live in the same temp directory.  None of
\* them starts with one of the two prefixes followed by a dash.
UnrelatedFiles == {"claude-context-usage", "npm-cache.json"}

\* A set of file names as a sequence, in some order.
RECURSIVE AnyOrder(_)
AnyOrder(S) ==
    IF S = {} THEN <<>>
    ELSE LET f == CHOOSE g \in S : TRUE IN <<f>> \o AnyOrder(S \ {f})

\* The order of a directory listing is up to the file system; the model
\* fixes one for the record files of the sessions it knows.
DirOrder ==
    <<bridgePath("s1"), counterFile("s1"), "claude-context-usage-root.json",
      bridgePath("s2"), counterFile("s2"),
      bridgePath("default"), counterFile("default")>>

\* A set of file names as a sequence, in the order the loop visits them.
InOrder(S) ==
    LET Listed(f) == f \in S
        known     == SelectSeq(DirOrder, Listed)
    IN  known \o AnyOrder(S \ {known[i] : i \in DOMAIN known})

----------------------------------------------------------------------------
(* Events the host delivers on standard input *)

\* session_id as the host may send it: a key, the empty string, or no field.
WithSessionId(obj, sid) ==
    IF sid = "absent" THEN obj
    ELSE [f \in (DOMAIN obj) \cup {"session_id"} |->
            IF f = "session_id" THEN sid ELSE obj[f]]

SessionIdInputs == Keys \cup {"", "absent"}

\* The StatusLine payload of the smoke test.
ScenarioPayload ==
    [context_window |-> [used_percentage      |-> 420,
                         remaining_percentage |-> 580,
                         context_window_size  |-> 200000,
                         total_input_tokens   |-> 84000,
                         total_output_tokens  |-> 12000],
     model |-> [display_name |-> "Opus"],
     cost  |-> [total_cost_usd |-> 47]]

\* A payload with a fractional percentage and nothing else.
FractionPayload ==
    [context_window |-> [used_percentage      |-> 796,
                         remaining_percentage |-> 204]]

StatusLinePayloads == {ScenarioPayload, FractionPayload, EmptyObject}

\* PostToolUse events: with a session key they name the tool; without one
\* they come with and without a tool name.
KeyedToolEvents == {[session_id |-> k, tool_name |-> "Read"] : k \in Keys}

ToolEvents ==
    KeyedToolEvents \cup
    {[session_id |-> "", tool_name |-> "Read"], [tool_name |-> "Read"], EmptyObject}

\* UserPromptSubmit events.
PromptEvents == {WithSessionId(EmptyObject, sid) : sid \in SessionIdInputs}

\* SessionEnd events.
CleanupEvents == {WithSessionId(EmptyObject, sid) : sid \in SessionIdInputs}

\* StatusLine events.
StatusLineEvents(payloads) ==
    {WithSessionId(o, sid) : o \in payloads, sid \in SessionIdInputs}

\* What can arrive on stdin: text that is no JSON, the JSON value null, or
\* a JSON object.
Garbage == PlainText("not json")

StdinOf(events) ==
    {Garbage, JSONstringify(JsNull)} \cup
    {JSONstringify(JsObject(e)) : e \in events}

----------------------------------------------------------------------------
(* Processes *)

\* The session ids the Event Counter can work on: "default" replaces a
\* missing session_id.
SessionIds == Keys \cup {"default"}

Idle == [hook |-> "none", pc |-> "idle"]

NoExit == [hook |-> "none"]

\* An Event Counter process at work on the files of session id k.
CounterInFlight(p, k) == proc[p].hook = TOOL /\ proc[p].sessionId = k

\* A Snapshot Writer or Event Counter process in flight for session id k.
WriterOrCounterInFlight(p, k) ==
    proc[p].hook \in {STATUSLINE, TOOL} /\ proc[p].sessionId = k

\* A Session Reaper process in flight that carries session key k.
ReaperInFlight(p, k) ==
    proc[p].hook \in {CLEANUP_JS, CLEANUP_CJS} /\ proc[p].sessionId = k

\* What an exiting process leaves behind: exit code and standard output
\* (<<>> for empty output, <<m>> for the one value written).
Exit(hook, sessionId, code, stdout) ==
    [hook |-> hook, sessionId |-> sessionId, code |-> code, stdout |-> stdout]

Sum(f) == f["s1"] + f["s2"] + f["default"]

\* The processes once a Snapshot Writer or Event Counter for session id k
\* has started in slot p as rec: a Session Reaper that carries k no longer
\* runs alone.
Started(p, rec, k) ==
    [q \in Procs |->
        IF q = p THEN rec
        ELSE IF ReaperInFlight(q, k) THEN [proc[q] EXCEPT !.alone = FALSE]
        ELSE proc[q]]

\* The session of key k is open again.
Reopened(k) == [j \in Keys |-> IF j = k THEN "no" ELSE reaped[j]]

Init ==
    /\ tmpdir = [f \in UnrelatedFiles |-> PlainText("x")]
    /\ proc = [p \in Procs |-> Idle]
    /\ exited = NoExit
    /\ calls = [k \in SessionIds |-> 0]
    /\ emitted = [k \in SessionIds |-> 0]
    /\ reaped = [k \in Keys |-> "no"]

----------------------------------------------------------------------------
(* statusline-bridge.js: the Snapshot Writer *)

\* const sessionId = data.session_id
WriterSessionId(data) == Nullish(data, "session_id", "")

\* The object built with no defaults: a field the event omits is left out.
Bridge_NoDefaults(data) ==
    LET ctx == OrObject(data, "context_window")
        all == [session_id    |-> WriterSessionId(data),
                used_pct      |-> Nullish(ctx, "used_percentage", 0),
                remaining_pct |-> Nullish(ctx, "remaining_percentage", 0),
                window_size   |-> Nullish(ctx, "context_window_size", 0),
                input_tokens  |-> Nullish(ctx, "total_input_tokens", 0),
                output_tokens |-> Nullish(ctx, "total_output_tokens", 0),
                model         |-> OrString(OrObject(data, "model"), "display_name", ""),
                cost_usd      |-> OrNumber(OrObject(data, "cost"), "total_cost_usd", 0),
                timestamp     |-> "toISOString"]
        given == {"session_id", "timestamp"}
                 \cup (IF Has(ctx, "used_percentage") THEN {"used_pct"} ELSE {})
                 \cup (IF Has(ctx, "remaining_percentage") THEN {"remaining_pct"} ELSE {})
                 \cup (IF Has(ctx, "context_window_size") THEN {"window_size"} ELSE {})
                 \cup (IF Has(ctx, "total_input_tokens") THEN {"input_tokens"} ELSE {})
                 \cup (IF Has(ctx, "total_output_tokens") THEN {"output_tokens"} ELSE {})
                 \cup (IF Has(OrObject(data, "model"), "display_name") THEN {"model"} ELSE {})
                 \cup (IF Has(OrObject(data, "cost"), "total_cost_usd") THEN {"cost_usd"} ELSE {})
    IN  [f \in given |-> all[f]]

\* The object writeBridgeFile builds from the event.
Bridge(data) ==
    LET ctx == OrObject(data, "context_window") IN
    [session_id    |-> WriterSessionId(data),
     used_pct      |-> Nullish(ctx, "used_percentage", 0),
     remaining_pct |-> Nullish(ctx, "remaining_percentage", 1000),
     window_size   |-> Nullish(ctx, "context_window_size", 200000),
     input_tokens  |-> Nullish(ctx, "total_input_tokens", 0),
     output_tokens |-> Nullish(ctx, "total_output_tokens", 0),
     model         |-> OrString(OrObject(data, "model"), "display_name", "Claude"),
     cost_usd      |-> OrNumber(OrObject(data, "cost"), "total_cost_usd", 0),
     timestamp     |-> "toISOString"]

\* What renderStatusLine prints, colours and separators left out: the
\* rounded percentage, the model and the cost.
renderStatusLine(data) ==
    LET ctx == OrObject(data, "context_window") IN
    [pct   |-> MathRound(Nullish(ctx, "used_percentage", 0), 10),
     model |-> OrString(OrObject(data, "model"), "display_name", "Claude"),
     cost  |-> OrNumber(OrObject(data, "cost"), "total_cost_usd", 0)]

\* The line printed when the handler's try block throws.
FallbackStatusLine == [pct |-> 0, model |-> "Claude", cost |-> 0]

\* The guard left out.
WriterHasKey_Always(data) == TRUE

\* if (!sessionId) return
WriterHasKey(data) == WriterSessionId(data) # ""

\* stdin "end" up to the storage write.  Unparseable input and null (whose
\* field access throws inside the try block) take the catch branch.
StartStatusLine(p, input) ==
    /\ proc[p].pc = "idle"
    /\ LET parsed == JSONparse(input) IN
       IF parsed.parse # "object"
       THEN /\ exited' = Exit(STATUSLINE, "", 0, <<FallbackStatusLine>>)
            /\ UNCHANGED <<proc, reaped>>
       ELSE LET data == parsed.object IN
            IF ~WriterHasKey(data)
            THEN /\ exited' = Exit(STATUSLINE, "", 0, <<renderStatusLine(data)>>)
                 /\ UNCHANGED <<proc, reaped>>
            ELSE /\ proc' = Started(p, [hook |-> STATUSLINE, pc |-> "writeFileSync",
                                        sessionId |-> WriterSessionId(data),
                                        data |-> data],
                                    WriterSessionId(data))
                 /\ reaped' = Reopened(WriterSessionId(data))
                 /\ exited' = NoExit
    /\ UNCHANGED <<tmpdir, calls, emitted>>

\* fs.writeFileSync(bridgePath(sessionId), JSON.stringify(bridge)), then
\* renderStatusLine(data).
WriteBridgeFile(p) ==
    /\ proc[p].hook = STATUSLINE
    /\ proc[p].pc = "writeFileSync"
    /\ tmpdir' = writeFileSync(tmpdir, bridgePath(proc[p].sessionId),
                               JSONstringify(JsObject(Bridge(proc[p].data))))
    /\ exited' = Exit(STATUSLINE, proc[p].sessionId, 0,
                      <<renderStatusLine(proc[p].data)>>)
    /\ proc' = [proc EXCEPT ![p] = Idle]
    /\ UNCHANGED <<calls, emitted, reaped>>

\* What the Snapshot Writer would leave behind were the error of
\* writeFileSync not caught in writeBridgeFile: the catch of the handler
\* prints the fallback line.
FailedWriteExit_Uncaught(p) ==
    [hook |-> STATUSLINE, sessionId |-> proc[p].sessionId, code |-> 0,
     stdout |-> <<FallbackStatusLine>>, threw |-> TRUE]

\* What the Snapshot Writer leaves behind when writeFileSync throws: the
\* catch in writeBridgeFile swallows the error and renderStatusLine runs.
FailedWriteExit(p) ==
    [hook |-> STATUSLINE, sessionId |-> proc[p].sessionId, code |-> 0,
     stdout |-> <<renderStatusLine(proc[p].data)>>, threw |-> TRUE]

\* fs.writeFileSync throws before it has changed the file (the directory or
\* the file is not writable), then renderStatusLine(data).
WriteBridgeFileThrows(p) ==
    /\ proc[p].hook = STATUSLINE
    /\ proc[p].pc = "writeFileSync"
    /\ exited' = FailedWriteExit(p)
    /\ proc' = [proc EXCEPT ![p] = Idle]
    /\ UNCHANGED <<tmpdir, calls, emitted, reaped>>

----------------------------------------------------------------------------
(* inject-context-on-tool.js: the Event Counter *)

\* stdin "end" up to the first storage read.  Unparseable input exits 0 at
\* once; null parses, and reading a field of it throws out of the handler.
StartTool(p, input, budget) ==
    /\ proc[p].pc = "idle"
    /\ LET parsed == JSONparse(input) IN
       IF parsed.parse = "error"
       THEN /\ exited' = Exit(TOOL, "", 0, <<>>)
            /\ UNCHANGED <<proc, calls, reaped>>
       ELSE IF parsed.parse = "null"
       THEN /\ exited' = Exit(TOOL, "", 1, <<>>)
            /\ UNCHANGED <<proc, calls, reaped>>
       ELSE LET hookData  == parsed.object
                sessionId == OrString(hookData, "session_id", "default")
                toolName  == OrString(hookData, "tool_name", "unknown")
            IN  /\ Sum(calls) < budget
                /\ proc' = Started(p, [hook |-> TOOL, pc |-> "readCounter",
                                       sessionId |-> sessionId,
                                       toolName |-> toolName, count |-> 0,
                                       keyed |-> OrString(hookData, "session_id", "") # ""],
                                   sessionId)
                /\ calls' = [calls EXCEPT ![sessionId] = @ + 1]
                /\ reaped' = Reopened(sessionId)
                /\ exited' = NoExit
    /\ UNCHANGED <<tmpdir, emitted>>

\* parseInt(fs.readFileSync(counterFile, "utf8"), 10) || 0, with 0 kept when
\* the read throws.
ReadCount(dir, sessionId) ==
    IF counterFile(sessionId) \in DOMAIN dir
    THEN OrZero(ParseInt(dir[counterFile(sessionId)]))
    ELSE 0

\* count += 2
Increment_Twice(count) == count + 2

\* count++
Increment(count) == count + 1

ReadCounter(p) ==
    /\ proc[p].hook = TOOL
    /\ proc[p].pc = "readCounter"
    /\ proc' = [proc EXCEPT ![p].count = Increment(ReadCount(tmpdir, proc[p].sessionId)),
                            ![p].pc = "writeCounter"]
    /\ exited' = NoExit
    /\ UNCHANGED <<tmpdir, calls, emitted, reaped>>

\* What an exiting Event Counter leaves behind: besides exit code and output,
\* the value it computed, the number of calls its session id has received,
\* and whether the bridge file of its session id is there as it exits.
CounterExit(p, code, stdout) ==
    [hook |-> TOOL, sessionId |-> proc[p].sessionId, code |-> code,
     stdout |-> stdout, count |-> proc[p].count,
     callNo |-> calls[proc[p].sessionId],
     snapshot |-> bridgePath(proc[p].sessionId) \in DOMAIN tmpdir]

\* The sampling test one call early in each block: count % EVERY_N === 1.
OnBoundary_First(count) == count % EVERY_N = 1

\* The sampling test left out.
OnBoundary_Always(count) == TRUE

\* count % EVERY_N !== 0 is the early exit.
OnBoundary(count) == count % EVERY_N = 0

\* fs.writeFileSync(counterFile, String(count)), then the sampling test.
WriteCounter(p) ==
    /\ proc[p].hook = TOOL
    /\ proc[p].pc = "writeCounter"
    /\ tmpdir' = writeFileSync(tmpdir, counterFile(proc[p].sessionId),
                               PlainText(StringOf(proc[p].count)))
    /\ IF OnBoundary(proc[p].count)
       THEN /\ proc' = [proc EXCEPT ![p].pc = "readBridge"]
            /\ exited' = NoExit
       ELSE /\ proc' = [proc EXCEPT ![p] = Idle]
            /\ exited' = CounterExit(p, 0, <<>>)
    /\ UNCHANGED <<calls, emitted, reaped>>

\* A record with the mark that the count in it was not written.
Unsaved(rec) ==
    [f \in (DOMAIN rec) \cup {"unsaved"} |-> IF f = "unsaved" THEN TRUE ELSE rec[f]]

\* What the Event Counter would leave behind were the error of
\* writeFileSync not caught: an uncaught exception ends the process.
UnsavedExit_Uncaught(p) == Unsaved(CounterExit(p, 1, <<>>))

\* What the Event Counter leaves behind when writeFileSync has thrown and
\* the count is off the sampling boundary.
UnsavedExit(p) == Unsaved(CounterExit(p, 0, <<>>))

\* fs.writeFileSync(counterFile, String(count)) throws before it has changed
\* the file; the catch swallows the error, and the sampling test goes by
\* the count in memory.
WriteCounterThrows(p) ==
    /\ proc[p].hook = TOOL
    /\ proc[p].pc = "writeCounter"
    /\ IF OnBoundary(proc[p].count)
       THEN /\ proc' = [proc EXCEPT ![p] = Unsaved([proc[p] EXCEPT !.pc = "readBridge"])]
            /\ exited' = NoExit
       ELSE /\ proc' = [proc EXCEPT ![p] = Idle]
            /\ exited' = UnsavedExit(p)
    /\ UNCHANGED <<tmpdir, calls, emitted, reaped>>

\* The bridge file of another session in its place.
bridgeFile_Other(sessionId) == BRIDGE_PREFIX \o "s2" \o ".json"

\* The bridge file as the Event Counter names it.
bridgeFile(sessionId) == BRIDGE_PREFIX \o sessionId \o ".json"

\* The checkpoint with its bands opened below: pct > 80, pct > 60.
Checkpoint_Open(data, count, toolName) ==
    LET pct  == MathRound(Nullish(data, "used_pct", 0), 10)
        rem  == MathRound(Nullish(data, "remaining_pct", 1000), 10)
        winK == MathRound(Nullish(data, "window_size", 200000), 1000)
    IN  [icon     |-> IF pct > 80 THEN "red" ELSE IF pct > 60 THEN "yellow" ELSE "green",
         advice   |-> IF pct > 80 THEN "compact" ELSE IF pct > 60 THEN "concise" ELSE "",
         count    |-> count,
         toolName |-> toolName,
         pct      |-> pct,
         rem      |-> rem,
         winK     |-> winK]

\* The text of the checkpoint, by its parts.
Checkpoint(data, count, toolName) ==
    LET pct  == MathRound(Nullish(data, "used_pct", 0), 10)
        rem  == MathRound(Nullish(data, "remaining_pct", 1000), 10)
        winK == MathRound(Nullish(data, "window_size", 200000), 1000)
    IN  [icon     |-> IF pct >= 80 THEN "red" ELSE IF pct >= 60 THEN "yellow" ELSE "green",
         advice   |-> IF pct >= 80 THEN "compact" ELSE IF pct >= 60 THEN "concise" ELSE "",
         count    |-> count,
         toolName |-> toolName,
         pct      |-> pct,
         rem      |-> rem,
         winK     |-> winK]

\* Read and parse the bridge file of the same session id; write the
\* checkpoint.  A missing or unparseable file exits 0 with no output; a file
\* holding null parses, and reading a field of it throws out of the handler.
ReadBridge(p) ==
    /\ proc[p].hook = TOOL
    /\ proc[p].pc = "readBridge"
    /\ LET k      == proc[p].sessionId
           f      == bridgeFile(k)
           parsed == IF f \in DOMAIN tmpdir THEN JSONparse(tmpdir[f])
                     ELSE [parse |-> "error"]
       IN  IF parsed.parse = "error"
           THEN /\ exited' = CounterExit(p, 0, <<>>)
                /\ UNCHANGED emitted
           ELSE IF parsed.parse = "null"
           THEN /\ exited' = CounterExit(p, 1, <<>>)
                /\ UNCHANGED emitted
           ELSE /\ exited' = CounterExit(p, 0,
                                 <<Checkpoint(parsed.object, proc[p].count,
                                              proc[p].toolName)>>)
                /\ emitted' = [emitted EXCEPT ![k] = @ + 1]
    /\ proc' = [proc EXCEPT ![p] = Idle]
    /\ UNCHANGED <<tmpdir, calls, reaped>>

----------------------------------------------------------------------------
(* session-cleanup.js and session-cleanup.cjs: the Session Reaper *)

\* sessionId = data.session_id || "", with "" kept when the try block throws
\* (unparseable input, or null, whose field access throws).
CleanupSessionId(input) ==
    LET parsed == JSONparse(input) IN
    IF parsed.parse = "object" THEN OrString(parsed.object, "session_id", "")
    ELSE ""

\* The bridge file alone.
SessionFiles_BridgeOnly(sessionId) == <<bridgePath(sessionId)>>

\* The two files of one session, in the order the loop unlinks them.
SessionFiles(sessionId) == <<bridgePath(sessionId), counterFile(sessionId)>>

\* A loop that does not move on: the same name again.
Remaining_Same(todo) == todo

\* for (const f of ...): the names left once the loop has dealt with the
\* first of todo.
Remaining(todo) == Tail(todo)

\* Without a session id session-cleanup.js runs the fallback sweep, and
\* session-cleanup.cjs returns.
Sweeps(hook) == hook = CLEANUP_JS

\* What an exiting Session Reaper leaves behind.
CleanupExit(hook, sessionId) == Exit(hook, sessionId, 0, <<>>)

\* The count kept for session id k once file f is unlinked: counting starts
\* afresh when f is k's counter file and no Event Counter is at work on it.
AfterUnlink(tally, k, f) ==
    IF f = counterFile(k) /\ ~\E q \in Procs : CounterInFlight(q, k)
    THEN 0
    ELSE tally[k]

\* fs.unlinkSync(f) by the process in slot p, which then has the names in
\* rest left to unlink, and exits when there are none.
Unlink(p, hook, sessionId, f, rest, alone) ==
    /\ tmpdir' = unlinkSync(tmpdir, f)
    /\ calls' = [k \in SessionIds |-> AfterUnlink(calls, k, f)]
    /\ emitted' = [k \in SessionIds |-> AfterUnlink(emitted, k, f)]
    /\ IF rest = <<>>
       THEN /\ proc' = [proc EXCEPT ![p] = Idle]
            /\ exited' = CleanupExit(hook, sessionId)
            /\ reaped' = [k \in Keys |->
                            IF k # sessionId THEN reaped[k]
                            ELSE IF alone THEN "clean" ELSE "done"]
       ELSE /\ proc' = [proc EXCEPT ![p] =
                   [hook |-> hook, pc |-> "unlinkSync", sessionId |-> sessionId,
                    todo |-> rest, alone |-> alone]]
            /\ exited' = NoExit
            /\ UNCHANGED reaped

\* stdin "end" up to and including the first storage operation: with a
\* session id the first unlinkSync, without one the readdirSync of the
\* fallback sweep and its first unlinkSync (session-cleanup.js) or nothing
\* (session-cleanup.cjs).
StartCleanup(p, hook, input) ==
    /\ proc[p].pc = "idle"
    /\ LET sessionId == CleanupSessionId(input) IN
       IF sessionId # ""
       THEN LET todo == SessionFiles(sessionId) IN
            Unlink(p, hook, sessionId, Head(todo), Tail(todo),
                   ~\E q \in Procs : WriterOrCounterInFlight(q, sessionId))
       ELSE IF Sweeps(hook)
       THEN LET todo == InOrder({f \in readdirSync(tmpdir) : SweepMatches(f)})
            IN  IF todo = <<>>
                THEN /\ exited' = CleanupExit(hook, "")
                     /\ UNCHANGED <<tmpdir, proc, calls, emitted, reaped>>
                ELSE Unlink(p, hook, "", Head(todo), Tail(todo), TRUE)
       ELSE /\ exited' = CleanupExit(hook, "")
            /\ UNCHANGED <<tmpdir, proc, calls, emitted, reaped>>

\* Every further fs.unlinkSync of either loop.
CleanupUnlink(p) ==
    /\ proc[p].hook \in {CLEANUP_JS, CLEANUP_CJS}
    /\ proc[p].pc = "unlinkSync"
    /\ Unlink(p, proc[p].hook, proc[p].sessionId,
              Head(proc[p].todo), Remaining(proc[p].todo), proc[p].alone)

----------------------------------------------------------------------------
(* setup.js --uninstall: the sweep of the temp directory *)

\* The filter of the uninstall sweep: the first prefix without its dash.
UninstallMatches(f) ==
    StartsWith(f, "claude-context-usage") \/ StartsWith(f, COUNTER_PREFIX)

\* What setup.js --uninstall leaves behind: it exits 0 either way, having
\* reported "Cleaned temp files" only if the loop ran to its end.
UninstallExit(cleaned) ==
    [hook |-> SETUP, sessionId |-> "", code |-> 0, stdout |-> <<>>,
     cleaned |-> cleaned]

\* fs.unlinkSync(f) in the uninstall loop, with the names in rest still to
\* go.  Nothing in the loop catches: a throw leaves the loop for the catch
\* around it, and the names in rest are never reached.
UninstallStep(p, f, rest) ==
    IF UnlinkThrows(tmpdir, f)
    THEN /\ proc' = [proc EXCEPT ![p] = Idle]
         /\ exited' = UninstallExit(FALSE)
         /\ UNCHANGED <<tmpdir, calls, emitted, reaped>>
    ELSE /\ tmpdir' = unlinkSync(tmpdir, f)
         /\ calls' = [k \in SessionIds |-> AfterUnlink(calls, k, f)]
         /\ emitted' = [k \in SessionIds |-> AfterUnlink(emitted, k, f)]
         /\ UNCHANGED reaped
         /\ IF rest = <<>>
            THEN /\ proc' = [proc EXCEPT ![p] = Idle]
                 /\ exited' = UninstallExit(TRUE)
            ELSE /\ proc' = [proc EXCEPT ![p] =
                        [hook |-> SETUP, pc |-> "unlinkSync", todo |-> rest]]
                 /\ exited' = NoExit

\* The uninstall branch up to and including its first unlinkSync in the
\* temp directory (the hook scripts it removes first live elsewhere).
StartUninstall(p) ==
    /\ proc[p].pc = "idle"
    /\ LET todo == InOrder({f \in readdirSync(tmpdir) : UninstallMatches(f)})
       IN  IF todo = <<>>
           THEN /\ exited' = UninstallExit(TRUE)
                /\ UNCHANGED <<tmpdir, proc, calls, emitted, reaped>>
           ELSE UninstallStep(p, Head(todo), Tail(todo))

\* Every further fs.unlinkSync of the uninstall loop.
UninstallUnlink(p) ==
    /\ proc[p].hook = SETUP
    /\ proc[p].pc = "unlinkSync"
    /\ UninstallStep(p, Head(proc[p].todo), Remaining(proc[p].todo))

----------------------------------------------------------------------------
(* inject-context-on-prompt.js: the Snapshot Reader *)

NoSessionMessage == PlainText("[Context tracking: no session_id available]")

AwaitingMessage == PlainText("[Context tracking: awaiting first status update]")

\* The tiers with their lower boundaries left out: pct > 80, > 60, > 40.
Severity_Open(pct) ==
    IF pct > 80 THEN [sev |-> "CRITICAL", guidance |-> "suggest /compact now"]
    ELSE IF pct > 60
    THEN [sev |-> "WARNING", guidance |-> "be concise, avoid verbose output"]
    ELSE IF pct > 40 THEN [sev |-> "MODERATE", guidance |-> ""]
    ELSE [sev |-> "OK", guidance |-> ""]

\* The severity and the guidance that follows it in the message.
Severity(pct) ==
    IF pct >= 80 THEN [sev |-> "CRITICAL", guidance |-> "suggest /compact now"]
    ELSE IF pct >= 60
    THEN [sev |-> "WARNING", guidance |-> "be concise, avoid verbose output"]
    ELSE IF pct >= 40 THEN [sev |-> "MODERATE", guidance |-> ""]
    ELSE [sev |-> "OK", guidance |-> ""]

\* The message built from the parsed bridge file, by its parts.
ContextMessage(data) ==
    LET pct == MathRound(Nullish(data, "used_pct", 0), 10) IN
    [sev      |-> Severity(pct).sev,
     guidance |-> Severity(pct).guidance,
     pct      |-> pct,
     rem      |-> MathRound(Nullish(data, "remaining_pct", 1000), 10),
     winK     |-> MathRound(Nullish(data, "window_size", 200000), 1000),
     inTok    |-> Nullish(data, "input_tokens", 0),
     outTok   |-> Nullish(data, "output_tokens", 0)]

\* buildContextMessage(sessionId): <<msg>>, or <<>> when it throws.  A
\* missing or unparseable bridge file gives the awaiting message; a file
\* holding null parses, and reading a field of it throws.
buildContextMessage(dir, sessionId) ==
    IF sessionId = "" THEN <<NoSessionMessage>>
    ELSE LET f      == bridgePath(sessionId)
             parsed == IF f \in DOMAIN dir THEN JSONparse(dir[f])
                       ELSE [parse |-> "error"]
         IN  IF parsed.parse = "error" THEN <<AwaitingMessage>>
             ELSE IF parsed.parse = "null" THEN <<>>
             ELSE <<ContextMessage(parsed.object)>>

\* What an exiting Snapshot Reader leaves behind: besides exit code and
\* output, what JSON.parse made of its input.
PromptExit(sessionId, input, stdout) ==
    [hook |-> PROMPT, sessionId |-> sessionId,
     code |-> IF stdout = <<>> THEN 1 ELSE 0,
     stdout |-> stdout, input |-> input]

\* The whole handler: its one storage operation is the read of the bridge
\* file.  Unparseable input leaves hookData = {}; null parses, and reading
\* session_id of it throws out of the handler.
StartPrompt(p, input) ==
    /\ proc[p].pc = "idle"
    /\ LET parsed == JSONparse(input) IN
       IF parsed.parse = "null"
       THEN exited' = PromptExit("", "null", <<>>)
       ELSE LET hookData  == IF parsed.parse = "object" THEN parsed.object
                             ELSE EmptyObject
                sessionId == OrString(hookData, "session_id", "")
            IN  exited' = PromptExit(sessionId, parsed.parse,
                                     buildContextMessage(tmpdir, sessionId))
    /\ UNCHANGED <<tmpdir, proc, calls, emitted, reaped>>

----------------------------------------------------------------------------
(* The host *)

\* A new process takes the first free slot.
FirstFree(p) == proc[p].pc = "idle" /\ \A q \in Procs : q < p => proc[q].pc # "idle"

\* No hook process is in flight.
Quiet == \A q \in Procs : proc[q].pc = "idle"

\* The invocations whose handler performs no storage operation at all, or
\* (the Snapshot Reader) a single read: they are one step that changes
\* nothing but what the process leaves behind, so
\* their place among the steps of the other processes makes no difference,
\* and the host model runs them between the other hooks.
Inert(hook, input) ==
    LET parsed == JSONparse(input) IN
    CASE hook = STATUSLINE  -> parsed.parse # "object" \/ ~WriterHasKey(parsed.object)
      [] hook = TOOL        -> parsed.parse # "object"
      [] hook = CLEANUP_CJS -> CleanupSessionId(input) = ""
      [] hook = PROMPT      -> TRUE
      [] OTHER              -> FALSE

Schedulable(hook, input) == Inert(hook, input) => Quiet

\* One step of the hook process in slot p.
Step(p, budget, payloads, toolEvents) ==
    \/ /\ FirstFree(p)
       /\ \/ \E input \in StdinOf(StatusLineEvents(payloads)) :
                 Schedulable(STATUSLINE, input) /\ StartStatusLine(p, input)
          \/ \E input \in StdinOf(toolEvents) :
                 Schedulable(TOOL, input) /\ StartTool(p, input, budget)
          \/ \E input \in StdinOf(PromptEvents) :
                 Schedulable(PROMPT, input) /\ StartPrompt(p, input)
          \/ \E input \in StdinOf(CleanupEvents), hook \in {CLEANUP_JS, CLEANUP_CJS} :
                 Schedulable(hook, input) /\ StartCleanup(p, hook, input)
    \/ WriteBridgeFile(p)
    \/ ReadCounter(p)
    \/ WriteCounter(p)
    \/ ReadBridge(p)
    \/ CleanupUnlink(p)

\* The host starts hooks whenever it likes, up to MaxProcs at a time.
Next == \E p \in Procs : Step(p, MaxCalls, {ScenarioPayload}, KeyedToolEvents)

Spec == Init /\ [][Next]_vars

\* The host runs one hook at a time, each to its end.
NextSerial == Step(1, MaxSerialCalls, StatusLinePayloads, ToolEvents)

SpecSerial == Init /\ [][NextSerial]_vars

\* The calls of one session overlap: the host starts PostToolUse hooks for
\* session "s1" without waiting for the one before, between StatusLine
\* updates and SessionEnd hooks of the same session.
RaceStatusLine == JSONstringify(JsObject(WithSessionId(ScenarioPayload, "s1")))
RaceTool       == JSONstringify(JsObject([session_id |-> "s1", tool_name |-> "Read"]))
RaceCleanup    == JSONstringify(JsObject([session_id |-> "s1"]))

NextRace ==
    \E p \in Procs :
        \/ FirstFree(p) /\ StartStatusLine(p, RaceStatusLine)
        \/ FirstFree(p) /\ StartTool(p, RaceTool, MaxRaceCalls)
        \/ FirstFree(p) /\ StartCleanup(p, CLEANUP_JS, RaceCleanup)
        \/ WriteBridgeFile(p)
        \/ ReadCounter(p)
        \/ WriteCounter(p)
        \/ ReadBridge(p)
        \/ CleanupUnlink(p)

SpecRace == Init /\ [][NextRace]_vars

\* The percentages of one session sweep the thresholds of the severity
\* tiers: StatusLine updates of "s1" carry used percentages (in tenths)
\* within Near tenths of 40, 60 and 80, and the ends of the range; the
\* prompt and tool hooks of the session run between them, one at a time,
\* and so do the StatusLine updates of a second session, "s2", with the
\* payload of the smoke test.
\* The bridge file of "s1" starts absent, or holding what another program
\* or a cut-off write put under its name.
Near == 6

MaxTierCalls == 5

Thresholds == {400, 600, 800}

PctInputs ==
    {0, 420, 796, 1000} \cup {t + d : t \in Thresholds, d \in (0 - Near)..Near}

PctPayload(u) ==
    [session_id |-> "s1",
     context_window |-> [used_percentage      |-> u,
                         remaining_percentage |-> 1000 - u,
                         context_window_size  |-> 200000]]

ForeignContents == {Garbage, JSONstringify(JsNull)}

InitTiers ==
    /\ \/ tmpdir = [f \in UnrelatedFiles |-> PlainText("x")]
       \/ \E c \in ForeignContents :
             tmpdir = [f \in UnrelatedFiles \cup {bridgePath("s1")} |->
                          IF f \in UnrelatedFiles THEN PlainText("x") ELSE c]
    /\ proc = [p \in Procs |-> Idle]
    /\ exited = NoExit
    /\ calls = [k \in SessionIds |-> 0]
    /\ emitted = [k \in SessionIds |-> 0]
    /\ reaped = [k \in Keys |-> "no"]

NextTiers ==
    \/ /\ FirstFree(1)
       /\ \/ \E u \in PctInputs :
                StartStatusLine(1, JSONstringify(JsObject(PctPayload(u))))
          \/ StartStatusLine(1, JSONstringify(JsObject(WithSessionId(ScenarioPayload, "s2"))))
          \/ StartTool(1, RaceTool, MaxTierCalls)
          \/ \E input \in StdinOf(PromptEvents) : StartPrompt(1, input)
          \/ StartCleanup(1, CLEANUP_JS, RaceCleanup)
    \/ WriteBridgeFile(1)
    \/ ReadCounter(1)
    \/ WriteCounter(1)
    \/ ReadBridge(1)
    \/ CleanupUnlink(1)

SpecTiers == InitTiers /\ [][NextTiers]_vars

\* Storage that can refuse a write: StatusLine updates, prompt hooks and
\* SessionEnd hooks one at a time, each write of a bridge file succeeding or
\* throwing.
NextFault ==
    \/ /\ FirstFree(1)
       /\ \/ \E input \in StdinOf(StatusLineEvents(StatusLinePayloads)) :
                StartStatusLine(1, input)
          \/ \E input \in StdinOf(PromptEvents) : StartPrompt(1, input)
          \/ \E input \in StdinOf(CleanupEvents) : StartCleanup(1, CLEANUP_JS, input)
    \/ WriteBridgeFile(1)
    \/ WriteBridgeFileThrows(1)
    \/ CleanupUnlink(1)

SpecFault == Init /\ [][NextFault]_vars

\* StatusLine updates overlap: the host starts the status line command
\* for a new update of a session before the one before has written, with a
\* different payload; prompt hooks and SessionEnd hooks of the sessions come
\* in between.
KeyedStatusLine ==
    {JSONstringify(JsObject(WithSessionId(o, k))) : o \in StatusLinePayloads, k \in Keys}

KeyedPrompt == {JSONstringify(JsObject([session_id |-> k])) : k \in Keys}

NextWriters ==
    \E p \in Procs :
        \/ FirstFree(p) /\ \E input \in KeyedStatusLine : StartStatusLine(p, input)
        \/ FirstFree(p) /\ \E input \in KeyedPrompt : StartPrompt(p, input)
        \/ FirstFree(p) /\ \E input \in KeyedPrompt : StartCleanup(p, CLEANUP_JS, input)
        \/ WriteBridgeFile(p)
        \/ CleanupUnlink(p)

SpecWriters == Init /\ [][NextWriters]_vars

\* A temp directory shared with another user: a record file of theirs is
\* there from the start and cannot be deleted.  StatusLine updates and tool
\* hooks of two sessions fill the directory, one at a time; SessionEnd hooks
\* without a session key and setup.js --uninstall sweep it.
MaxSweepCalls == 5

InitSweep ==
    /\ tmpdir = [f \in UnrelatedFiles \cup OtherUsersFiles |-> PlainText("x")]
    /\ proc = [p \in Procs |-> Idle]
    /\ exited = NoExit
    /\ calls = [k \in SessionIds |-> 0]
    /\ emitted = [k \in SessionIds |-> 0]
    /\ reaped = [k \in Keys |-> "no"]

NextSweep ==
    \/ /\ FirstFree(1)
       /\ \/ \E k \in Keys :
                StartStatusLine(1, JSONstringify(JsObject(WithSessionId(ScenarioPayload, k))))
          \/ \E e \in KeyedToolEvents :
                StartTool(1, JSONstringify(JsObject(e)), MaxSweepCalls)
          \/ StartCleanup(1, CLEANUP_JS, Garbage)
          \/ StartUninstall(1)
    \/ WriteBridgeFile(1)
    \/ ReadCounter(1)
    \/ WriteCounter(1)
    \/ ReadBridge(1)
    \/ CleanupUnlink(1)
    \/ UninstallUnlink(1)

SpecSweep == InitSweep /\ [][NextSweep]_vars

\* Run to completion: the hooks and the uninstall of one user overlap in a
\* temp directory shared with another user, and the operating system keeps
\* running every process that has a step to take.
MaxLiveCalls == 5

Proceed(p) ==
    \/ WriteBridgeFile(p)
    \/ ReadCounter(p)
    \/ WriteCounter(p)
    \/ ReadBridge(p)
    \/ CleanupUnlink(p)
    \/ UninstallUnlink(p)

NextLive ==
    \E p \in Procs :
        \/ FirstFree(p) /\ StartStatusLine(p, RaceStatusLine)
        \/ FirstFree(p) /\ StartTool(p, RaceTool, MaxLiveCalls)
        \/ FirstFree(p) /\ \E input \in {RaceCleanup, Garbage} :
                               StartCleanup(p, CLEANUP_JS, input)
        \/ FirstFree(p) /\ StartUninstall(p)
        \/ Proceed(p)

SpecLive ==
    InitSweep /\ [][NextLive]_vars /\ \A p \in Procs : WF_vars(Proceed(p))

\* A host whose session keys are any strings: one of its sessions has the
\* key "default".  StatusLine updates and tool hooks of that session and of
\* "s1" run one at a time, and among them tool hooks whose event carries no
\* session_id.
MaxDefaultCalls == 5

HostKeys == {"s1", "default"}

HostToolEvents ==
    {[session_id |-> k, tool_name |-> "Read"] : k \in HostKeys}
    \cup {[tool_name |-> "Read"]}

NextDefault ==
    \/ /\ FirstFree(1)
       /\ \/ \E k \in HostKeys :
                StartStatusLine(1, JSONstringify(JsObject(WithSessionId(ScenarioPayload, k))))
          \/ \E e \in HostToolEvents :
                StartTool(1, JSONstringify(JsObject(e)), MaxDefaultCalls)
          \/ \E k \in HostKeys :
                StartCleanup(1, CLEANUP_JS, JSONstringify(JsObject([session_id |-> k])))
    \/ WriteBridgeFile(1)
    \/ ReadCounter(1)
    \/ WriteCounter(1)
    \/ ReadBridge(1)
    \/ CleanupUnlink(1)

SpecDefault == Init /\ [][NextDefault]_vars

\* Storage that can refuse the write of the counter file: StatusLine
\* updates, tool hooks and SessionEnd hooks of "s1", one at a time, each
\* write of the counter file succeeding or throwing.
MaxUnsavedCalls == 6

NextUnsaved ==
    \/ /\ FirstFree(1)
       /\ \/ StartStatusLine(1, RaceStatusLine)
          \/ StartTool(1, RaceTool, MaxUnsavedCalls)
          \/ StartCleanup(1, CLEANUP_JS, RaceCleanup)
    \/ WriteBridgeFile(1)
    \/ ReadCounter(1)
    \/ WriteCounter(1)
    \/ WriteCounterThrows(1)
    \/ ReadBridge(1)
    \/ CleanupUnlink(1)

SpecUnsaved == Init /\ [][NextUnsaved]_vars

----------------------------------------------------------------------------
(* Reading a step *)

\* The process in slot p takes the step.  (When a Snapshot Writer or Event
\* Counter starts, the slot of a Session Reaper in flight changes in its
\* alone flag only; that is no step of the Session Reaper.)
Acts(p) ==
    /\ proc'[p] # proc[p]
    /\ ~(proc[p].pc = "unlinkSync" /\ proc'[p] = [proc[p] EXCEPT !.alone = FALSE])

\* The session id the process that takes the step in slot p works with: ""
\* for the fallback sweep.
ActingKey(p) ==
    IF proc[p].pc # "idle" THEN proc[p].sessionId ELSE proc'[p].sessionId

\* The script the process that takes the step in slot p runs.
ActingHook(p) ==
    IF proc[p].pc # "idle" THEN proc[p].hook ELSE proc'[p].hook

\* The step is one of a Session Reaper.
ReaperActs(p) ==
    Acts(p) /\ (proc[p].pc = "unlinkSync" \/ proc'[p].pc = "unlinkSync")

\* The Snapshot and the Counter Record of session id k, as far as they exist.
Records(dir, k) ==
    [f \in {bridgePath(k), counterFile(k)} \cap DOMAIN dir |-> dir[f]]

\* The Snapshot Records in a directory, whatever their key.
Snapshots(dir) ==
    [f \in {g \in DOMAIN dir : StartsWith(g, "claude-context-usage-")} |-> dir[f]]

\* The Counter Records in a directory, whatever their key.
Counters(dir) ==
    [f \in {g \in DOMAIN dir : StartsWith(g, "claude-tool-counter-")} |-> dir[f]]

----------------------------------------------------------------------------
(* Namespace isolation *)

\* C1: the two records of distinct session keys are distinct files, and a
\* step of a Snapshot Writer, an Event Counter or a Session Reaper that
\* works with key K1 leaves the Snapshot and the Counter Record of every
\* other key K2 as they are, whatever else is in flight.
C1_Isolation ==
    [][\A p \in Procs, k2 \in Keys :
          /\ \A k1 \in SessionIds \ {k2} :
                {bridgePath(k1), counterFile(k1)} \cap
                {bridgePath(k2), counterFile(k2)} = {}
          /\ Acts(p) /\ ActingKey(p) \notin {"", k2}
                => Records(tmpdir', k2) = Records(tmpdir, k2)]_vars

\* Both sessions have both records, the counters differ, and a process of
\* session "s1" is in flight next to one of session "s2".
C1_Witness ==
    /\ ReadCount(tmpdir, "s1") = 2
    /\ ReadCount(tmpdir, "s2") = 1
    /\ bridgePath("s1") \in DOMAIN tmpdir
    /\ bridgePath("s2") \in DOMAIN tmpdir
    /\ proc[1].pc # "idle" /\ proc[1].sessionId = "s1"
    /\ proc[2].pc # "idle" /\ proc[2].sessionId = "s2"

----------------------------------------------------------------------------
(* The sampling rule *)

\* C2: when the host runs one hook at a time, the Event Counter invocation
\* that is the n-th for its session id since the counter file was absent
\* computes the value n, and it writes a notification if and only if n is
\* divisible by 5 and the bridge file of the session is there.
C2_EveryNth ==
    (exited.hook = TOOL /\ "count" \in DOMAIN exited) =>
        /\ exited.count = exited.callNo
        /\ exited.stdout # <<>> <=>
               (exited.callNo % 5 = 0 /\ exited.callNo > 0 /\ exited.snapshot)

\* The tenth call of session "s1" has written its notification.
C2_Witness ==
    /\ exited.hook = TOOL
    /\ exited.sessionId = "s1"
    /\ "count" \in DOMAIN exited
    /\ exited.callNo = 10
    /\ exited.stdout # <<>>

----------------------------------------------------------------------------
(* The counter under interleaving *)

\* The counter file of session id k holds the decimal text of a number from
\* lo to hi.
WellFormedCounter(dir, k, lo, hi) ==
    \E v \in lo..hi : dir[counterFile(k)] = PlainText(StringOf(v))

\* C4: while the session of key K is open and its counter file exists, the
\* file holds a non-negative integer, and every step that is not one of a
\* Session Reaper carrying K leaves the file in place with a value at least
\* as high.
C4_NeverDecreases ==
    [][\A k \in Keys :
          (/\ counterFile(k) \in DOMAIN tmpdir
           /\ reaped[k] = "no"
           /\ ~\E p \in Procs : ReaperActs(p) /\ ActingKey(p) = k)
          => /\ ParseInt(tmpdir[counterFile(k)]) # <<>>
             /\ ReadCount(tmpdir, k) >= 0
             /\ counterFile(k) \in DOMAIN tmpdir'
             /\ ReadCount(tmpdir', k) >= ReadCount(tmpdir, k)]_vars

\* C5 as stated: however the invocations of one session id overlap, the
\* notifications written never outnumber floor(invocations / 5), no Event
\* Counter exits with an error, and the counter file holds an integer.
C5_AtMostMissed ==
    \A k \in SessionIds :
        /\ emitted[k] <= calls[k] \div 5
        /\ (exited.hook = TOOL /\ exited.sessionId = k) => exited.code = 0
        /\ counterFile(k) \in DOMAIN tmpdir =>
               ParseInt(tmpdir[counterFile(k)]) # <<>>

\* C5, amended: however the invocations of one session id overlap, every
\* notification comes from an invocation that computed a positive multiple
\* of 5; two invocations that read the same value both write its successor,
\* so a boundary can be missed, delayed or notified more than once, and the
\* notifications can outnumber floor(invocations / 5), but together with
\* the four invocations it takes to reach the first boundary they never
\* outnumber the invocations; no Event Counter exits with an error; and the
\* counter file always holds an integer from 1 to the number of invocations.
C5_MissedDelayedOrRepeated ==
    \A k \in SessionIds :
        /\ emitted[k] > 0 => emitted[k] + 4 <= calls[k]
        /\ (exited.hook = TOOL /\ "count" \in DOMAIN exited
                /\ exited.sessionId = k) =>
               /\ exited.code = 0
               /\ exited.stdout # <<>> =>
                      (exited.count > 0 /\ exited.count % 5 = 0)
               /\ exited.count <= exited.callNo
        /\ counterFile(k) \in DOMAIN tmpdir =>
               WellFormedCounter(tmpdir, k, 1, calls[k])

\* Two notifications out of six invocations: the fifth and the sixth both
\* read 4.
C5_Witness ==
    /\ calls["s1"] = 6
    /\ emitted["s1"] = 2
    /\ ReadCount(tmpdir, "s1") = 5

----------------------------------------------------------------------------
(* The Session Reaper *)

\* A name that follows the snapshot or the counter naming convention.
FollowsConvention(f) ==
    StartsWith(f, "claude-context-usage-") \/ StartsWith(f, "claude-tool-counter-")

\* All files but those in S are in dir2 what they were in dir1, and dir2 has
\* no file that dir1 had not.
SameBut(dir1, dir2, S) ==
    /\ DOMAIN dir2 \subseteq DOMAIN dir1
    /\ \A f \in (DOMAIN dir1) \ S : f \in DOMAIN dir2 /\ dir2[f] = dir1[f]

\* C6: every step of a Session Reaper that carries key K changes no file
\* but the bridge file and the counter file of K, and adds none; when it
\* exits, with code 0, neither of the two files exists, whether or not they
\* existed before.  (The host runs one hook at a time.)
C6_KeyedReaper ==
    [][/\ \A p \in Procs :
             (ReaperActs(p) /\ ActingKey(p) # "") =>
                 SameBut(tmpdir, tmpdir',
                         {"claude-context-usage-" \o ActingKey(p) \o ".json",
                          "claude-tool-counter-" \o ActingKey(p)})
       /\ (exited'.hook \in {CLEANUP_JS, CLEANUP_CJS} /\ exited'.sessionId # "") =>
             /\ exited'.code = 0
             /\ SameBut(tmpdir, tmpdir',
                        {"claude-context-usage-" \o exited'.sessionId \o ".json",
                         "claude-tool-counter-" \o exited'.sessionId})
             /\ ("claude-context-usage-" \o exited'.sessionId \o ".json")
                    \notin DOMAIN tmpdir'
             /\ ("claude-tool-counter-" \o exited'.sessionId)
                    \notin DOMAIN tmpdir']_vars

\* A Session Reaper carrying "s1" has exited, and the records of "s2" and
\* the counter of "default" are there.
C6_Witness ==
    /\ exited.hook \in {CLEANUP_JS, CLEANUP_CJS}
    /\ exited.sessionId = "s1"
    /\ bridgePath("s2") \in DOMAIN tmpdir
    /\ ReadCount(tmpdir, "s2") = 2
    /\ ReadCount(tmpdir, "default") = 1

C8_EndingSessionOnly ==
    [][\A p \in Procs, k \in Keys :
          (\/ ReaperActs(p) /\ ActingKey(p) # k
           \/ exited'.hook \in {CLEANUP_JS, CLEANUP_CJS} /\ exited'.sessionId # k)
          => Records(tmpdir', k) = Records(tmpdir, k)]_vars

\* C9 as stated: once a Session Reaper carrying key K has exited, and as
\* long as no Snapshot Writer or Event Counter for K is started after that,
\* neither the bridge file nor the counter file of K exists.
C9_GoneOnceReaped ==
    \A k \in Keys :
        reaped[k] # "no" =>
            /\ bridgePath(k) \notin DOMAIN tmpdir
            /\ counterFile(k) \notin DOMAIN tmpdir

\* C9, amended: once a Session Reaper carrying key K has exited, and as
\* long as no Snapshot Writer or Event Counter for K is started after that,
\* neither the bridge file nor the counter file of K exists, in every
\* interleaving in which no Snapshot Writer or Event Counter for K was in
\* flight at any moment between the Session Reaper's start and its exit.
C9_GoneOnceReapedAlone ==
    \A k \in Keys :
        reaped[k] = "clean" =>
            /\ ("claude-context-usage-" \o k \o ".json") \notin DOMAIN tmpdir
            /\ ("claude-tool-counter-" \o k) \notin DOMAIN tmpdir

\* The Session Reaper of "s1" ran with no other process of "s1" in flight
\* and has exited, while an Event Counter of "s2" is in flight and the
\* bridge file of "s2" is there.
C9_Witness ==
    /\ reaped["s1"] = "clean"
    /\ exited.hook \in {CLEANUP_JS, CLEANUP_CJS}
    /\ exited.sessionId = "s1"
    /\ bridgePath("s2") \in DOMAIN tmpdir
    /\ \E p \in Procs : CounterInFlight(p, "s2")

----------------------------------------------------------------------------
(* The Snapshot Writer without a session key *)

\* C10: a Snapshot Writer invocation whose event carries no session_id (or
\* an empty one) changes no file, whatever else the event holds, exits with
\* code 0 and prints its status line.
C10_NoKeyNoRecord ==
    [][(exited'.hook = STATUSLINE /\ exited'.sessionId = "") =>
          /\ tmpdir' = tmpdir
          /\ exited'.code = 0
          /\ exited'.stdout # <<>>]_vars

\* The status line of an event with 79.6% and no session_id has been
\* printed, rounded to 80, and the records of "s1" are there.
C10_Witness ==
    /\ exited.hook = STATUSLINE
    /\ exited.sessionId = ""
    /\ exited.stdout = <<[pct |-> 80, model |-> "Claude", cost |-> 0]>>
    /\ bridgePath("s1") \in DOMAIN tmpdir
    /\ ReadCount(tmpdir, "s1") = 2

----------------------------------------------------------------------------
(* The fixed messages of the Snapshot Reader *)

\* C11 as stated: a Snapshot Reader invocation with no session key prints
\* the fixed "no session_id available" message; one with a key whose bridge
\* file is absent or does not parse prints the fixed "awaiting first status
\* update" message; and so does one with a key that a Session Reaper has
\* reaped with no Snapshot Writer started for it since.
C11_FixedMessages ==
    exited.hook = PROMPT =>
        /\ exited.sessionId = "" => exited.stdout = <<NoSessionMessage>>
        /\ \A k \in Keys :
              exited.sessionId = k =>
                  /\ bridgePath(k) \notin DOMAIN tmpdir
                        => exited.stdout = <<AwaitingMessage>>
                  /\ (bridgePath(k) \in DOMAIN tmpdir
                         /\ JSONparse(tmpdir[bridgePath(k)]).parse = "error")
                        => exited.stdout = <<AwaitingMessage>>
                  /\ reaped[k] # "no" => exited.stdout = <<AwaitingMessage>>

----------------------------------------------------------------------------
(* The severity tiers of the Snapshot Reader *)

\* C12: the Snapshot Reader takes the severity from the stored used_pct
\* rounded to the nearest integer, with closed lower boundaries: 80 and
\* above is CRITICAL with the /compact suggestion, 60 to 79 WARNING with the
\* directive to be concise, 40 to 59 MODERATE and below 40 OK, both without
\* guidance.
C12_SeverityTiers ==
    \A k \in Keys :
        (/\ exited.hook = "inject-context-on-prompt.js"
         /\ exited.sessionId = k
         /\ ("claude-context-usage-" \o k \o ".json") \in DOMAIN tmpdir
         /\ JSONparse(tmpdir["claude-context-usage-" \o k \o ".json"]).parse = "object")
        => LET stored  == JSONparse(tmpdir["claude-context-usage-" \o k \o ".json"]).object
               rounded == (stored.used_pct + 5) \div 10
               msg     == exited.stdout[1]
           IN  /\ Len(exited.stdout) = 1
               /\ rounded >= 80 =>
                     msg.sev = "CRITICAL" /\ msg.guidance = "suggest /compact now"
               /\ rounded \in 60..79 =>
                     /\ msg.sev = "WARNING"
                     /\ msg.guidance = "be concise, avoid verbose output"
               /\ rounded \in 40..59 => msg.sev = "MODERATE" /\ msg.guidance = ""
               /\ rounded < 40 => msg.sev = "OK" /\ msg.guidance = ""

\* The Snapshot Writer stored 59.5% for "s1", and the Snapshot Reader of
\* "s1" has reported 60% as WARNING.
C12_Witness ==
    /\ exited.hook = PROMPT
    /\ exited.sessionId = "s1"
    /\ bridgePath("s1") \in DOMAIN tmpdir
    /\ JSONparse(tmpdir[bridgePath("s1")]).parse = "object"
    /\ JSONparse(tmpdir[bridgePath("s1")]).object.used_pct = 595
    /\ exited.stdout # <<>>
    /\ exited.stdout[1].pct = 60
    /\ exited.stdout[1].sev = "WARNING"

----------------------------------------------------------------------------
(* From the Snapshot Writer to the Snapshot Reader *)

\* C13: whenever the Snapshot Reader of key K reads the record the Snapshot
\* Writer stored for K, the used percentage in its message is the stored
\* used_pct rounded to the nearest integer and not cut off (42 gives 42,
\* 79.6 gives 80), and with it come the stored remaining percentage, rounded
\* alike, and the stored window size in thousands.
C13_RoundTrip ==
    \A k \in Keys :
        (/\ exited.hook = "inject-context-on-prompt.js"
         /\ exited.sessionId = k
         /\ ("claude-context-usage-" \o k \o ".json") \in DOMAIN tmpdir
         /\ JSONparse(tmpdir["claude-context-usage-" \o k \o ".json"]).parse = "object")
        => LET stored == JSONparse(tmpdir["claude-context-usage-" \o k \o ".json"]).object
               msg    == exited.stdout[1]
           IN  /\ exited.code = 0
               /\ Len(exited.stdout) = 1
               /\ 10 * msg.pct - 5 <= stored.used_pct
               /\ stored.used_pct < 10 * msg.pct + 5
               /\ stored.used_pct = 420 => msg.pct = 42
               /\ stored.used_pct = 796 => msg.pct = 80
               /\ 10 * msg.rem - 5 <= stored.remaining_pct
               /\ stored.remaining_pct < 10 * msg.rem + 5
               /\ 1000 * msg.winK = stored.window_size

\* The Snapshot Writer stored 79.6% used and 20.4% remaining of a window of
\* 200000 for "s1", and the Snapshot Reader of "s1" has reported 80% used,
\* 20% free, of a 200k window.
C13_Witness ==
    /\ exited.hook = PROMPT
    /\ exited.sessionId = "s1"
    /\ bridgePath("s1") \in DOMAIN tmpdir
    /\ JSONparse(tmpdir[bridgePath("s1")]).parse = "object"
    /\ JSONparse(tmpdir[bridgePath("s1")]).object.used_pct = 796
    /\ JSONparse(tmpdir[bridgePath("s1")]).object.remaining_pct = 204
    /\ JSONparse(tmpdir[bridgePath("s1")]).object.window_size = 200000
    /\ exited.stdout # <<>>
    /\ exited.stdout[1].pct = 80
    /\ exited.stdout[1].rem = 20
    /\ exited.stdout[1].winK = 200

----------------------------------------------------------------------------
(* The record the Snapshot Writer stores *)

----------------------------------------------------------------------------
(* No hook fails *)

\* C15 as stated: every Snapshot Reader invocation exits with code 0 and
\* exactly one message, which is the "no session_id available" message, the
\* "awaiting first status update" message or a context message, whatever
\* arrives on stdin and whatever the bridge file holds.
C15_AlwaysOneMessage ==
    exited.hook = PROMPT =>
        /\ exited.code = 0
        /\ Len(exited.stdout) = 1
        /\ \/ exited.stdout[1] = NoSessionMessage
           \/ exited.stdout[1] = AwaitingMessage
           \/ "sev" \in DOMAIN exited.stdout[1]

\* C16 as stated: every invocation of the Snapshot Writer, the Event
\* Counter and the Session Reaper exits with code 0, whatever arrives on
\* stdin and whatever the files of the session hold.
C16_AlwaysExitsZero ==
    exited.hook \in {STATUSLINE, TOOL, CLEANUP_JS, CLEANUP_CJS} => exited.code = 0

----------------------------------------------------------------------------
(* A write that fails *)

\* C17: when the write of the bridge file throws, the Snapshot Writer
\* leaves every file as it was, prints the status line of its event, the
\* same it prints after a write that succeeded, and exits with code 0.
C17_WriteFailureSwallowed ==
    [][\A p \in Procs :
          (/\ proc[p].hook = STATUSLINE
           /\ proc[p].pc = "writeFileSync"
           /\ proc'[p].pc = "idle"
           /\ "threw" \in DOMAIN exited')
          => /\ tmpdir' = tmpdir
             /\ exited'.code = 0
             /\ exited'.stdout = <<renderStatusLine(proc[p].data)>>]_vars

\* The write of the scenario's event for "s1" has thrown: the bridge file of
\* "s1" still holds the record of 79.6% stored before, and the status line
\* shows 42%, Opus and 0.47.
C17_Witness ==
    /\ exited.hook = STATUSLINE
    /\ "threw" \in DOMAIN exited
    /\ exited.sessionId = "s1"
    /\ exited.stdout = <<[pct |-> 42, model |-> "Opus", cost |-> 47]>>
    /\ bridgePath("s1") \in DOMAIN tmpdir
    /\ JSONparse(tmpdir[bridgePath("s1")]).object.used_pct = 796

----------------------------------------------------------------------------
(* One record per key, replaced as a whole *)

\* C18: in every state each file with the bridge prefix is the bridge file
\* of one session key, so a key has at most one Snapshot Record, and what it
\* holds is the complete record of one StatusLine event of that key, never
\* fields of two events; and each write of a Snapshot Writer leaves in the
\* file the complete record of its own event, whatever was there and
\* whichever other Snapshot Writer of the key is in flight.
C18_WholeRecord ==
    [][/\ \A f \in DOMAIN tmpdir' :
             StartsWith(f, "claude-context-usage-")
             => \E k \in Keys :
                   /\ f = "claude-context-usage-" \o k \o ".json"
                   /\ \A j \in Keys \ {k} : f # "claude-context-usage-" \o j \o ".json"
                   /\ \E o \in StatusLinePayloads :
                         tmpdir'[f] = JSONstringify(JsObject(Bridge(WithSessionId(o, k))))
       /\ \A p \in Procs :
             (/\ proc[p].hook = STATUSLINE
              /\ proc[p].pc = "writeFileSync"
              /\ proc'[p].pc = "idle")
             => tmpdir'["claude-context-usage-" \o proc[p].sessionId \o ".json"] =
                   JSONstringify(JsObject(Bridge(proc[p].data)))]_vars

\* A Snapshot Writer of "s1" has replaced the record of the scenario's event
\* by that of an event with 79.6%, while another Snapshot Writer of "s1",
\* started with the scenario's event, has yet to write.
C18_Witness ==
    /\ exited.hook = STATUSLINE
    /\ exited.sessionId = "s1"
    /\ bridgePath("s1") \in DOMAIN tmpdir
    /\ tmpdir[bridgePath("s1")] =
          JSONstringify(JsObject(Bridge(WithSessionId(FractionPayload, "s1"))))
    /\ exited.stdout = <<[pct |-> 80, model |-> "Claude", cost |-> 0]>>
    /\ \E p \in Procs :
          /\ proc[p].hook = STATUSLINE
          /\ proc[p].pc = "writeFileSync"
          /\ proc[p].data = WithSessionId(ScenarioPayload, "s1")

----------------------------------------------------------------------------
(* What a notification is made from *)

\* C19: an Event Counter writes a notification only in the step in which it
\* reads the bridge file of its own session key, and only if that file is
\* there and parses; the percentages in the notification are those of that
\* file, whatever the bridge files of other keys hold.  If the file is
\* absent or does not parse when the Event Counter reads it, nothing is
\* written, nothing is counted as emitted and the exit code is 0.
C19_OwnRecordOnly ==
    [][/\ (exited'.hook = "inject-context-on-tool.js" /\ exited'.stdout # <<>>)
          => \E p \in Procs : proc[p].pc = "readBridge" /\ proc'[p].pc = "idle"
       /\ \A p \in Procs :
             (/\ proc[p].hook = "inject-context-on-tool.js"
              /\ proc[p].pc = "readBridge"
              /\ proc'[p].pc = "idle")
             => LET f      == "claude-context-usage-" \o proc[p].sessionId \o ".json"
                    parsed == IF f \in DOMAIN tmpdir THEN JSONparse(tmpdir[f]).parse
                              ELSE "absent"
                IN  /\ exited'.stdout # <<>>
                       => /\ parsed = "object"
                          /\ Len(exited'.stdout) = 1
                          /\ exited'.stdout[1].pct =
                                (JSONparse(tmpdir[f]).object.used_pct + 5) \div 10
                          /\ exited'.stdout[1].rem =
                                (JSONparse(tmpdir[f]).object.remaining_pct + 5) \div 10
                    /\ parsed \in {"absent", "error"}
                       => /\ exited'.stdout = <<>>
                          /\ exited'.code = 0
                          /\ emitted' = emitted]_vars

\* The Event Counter of "s1" has written a notification with 80% on its
\* fifth call, from the record of 79.6% of "s1", while the bridge file of
\* "s2" holds 42%.
C19_Witness ==
    /\ exited.hook = TOOL
    /\ exited.sessionId = "s1"
    /\ exited.count = 5
    /\ exited.stdout # <<>>
    /\ exited.stdout[1].pct = 80
    /\ bridgePath("s1") \in DOMAIN tmpdir
    /\ JSONparse(tmpdir[bridgePath("s1")]).parse = "object"
    /\ JSONparse(tmpdir[bridgePath("s1")]).object.used_pct = 796
    /\ bridgePath("s2") \in DOMAIN tmpdir
    /\ JSONparse(tmpdir[bridgePath("s2")]).object.used_pct = 420

----------------------------------------------------------------------------
(* The bands of the Event Counter and the tiers of the Snapshot Reader *)

\* C20 as stated: the Event Counter's bands are the Snapshot Reader's
\* tiers.  The record a notification was made from and any record the
\* Snapshot Writer can store get the same icon exactly when they get the
\* same severity, and the notification carries advice exactly when the
\* Snapshot Reader's message for the record carries guidance.
C20_SameBands ==
    (exited.hook = TOOL /\ exited.stdout # <<>>) =>
        LET note   == exited.stdout[1]
            stored == JSONparse(tmpdir[bridgePath(exited.sessionId)]).object
            reader == ContextMessage(stored)
        IN  /\ \A u \in PctInputs :
                  LET other == Bridge(PctPayload(u)) IN
                  (Checkpoint(other, note.count, note.toolName).icon = note.icon)
                      <=> (ContextMessage(other).sev = reader.sev)
            /\ (note.advice # "") <=> (reader.guidance # "")

\* C20, amended: the Event Counter has three bands, from the rounded
\* used_pct: 80 and above, 60 to 79, and below 60.  The upper two are the
\* Snapshot Reader's CRITICAL and WARNING tiers, the third is its MODERATE
\* and OK tiers together; the notification carries advice exactly when the
\* Snapshot Reader's message for the same record carries guidance, and both
\* show the same rounded percentage.
C20_BandsCoarsenTiers ==
    (exited.hook = "inject-context-on-tool.js" /\ exited.stdout # <<>>) =>
        LET note   == exited.stdout[1]
            stored == JSONparse(tmpdir[bridgePath(exited.sessionId)]).object
            reader == ContextMessage(stored)
        IN  /\ (note.icon = "red") <=> (reader.sev = "CRITICAL")
            /\ (note.icon = "yellow") <=> (reader.sev = "WARNING")
            /\ (note.icon = "green") <=> (reader.sev \in {"MODERATE", "OK"})
            /\ note.icon \in {"red", "yellow", "green"}
            /\ (note.advice # "") <=> (reader.guidance # "")
            /\ note.pct = reader.pct

\* The Event Counter of "s1" has made a notification from a record of 42%:
\* green and without advice, where the Snapshot Reader says MODERATE.
C20_Witness ==
    /\ exited.hook = TOOL
    /\ exited.sessionId = "s1"
    /\ exited.stdout # <<>>
    /\ exited.stdout[1].icon = "green"
    /\ exited.stdout[1].advice = ""
    /\ exited.stdout[1].pct = 42
    /\ ContextMessage(JSONparse(tmpdir[bridgePath("s1")]).object).sev = "MODERATE"

----------------------------------------------------------------------------
(* A deletion that fails during a sweep *)

\* C21 as stated: when a sweep has ended, be it the fallback sweep of a
\* Session Reaper without a session key or the sweep of the uninstall, no
\* file is left that matches the sweep's filter and can be deleted, even if
\* the deletion of another matching file failed, and the exit code is 0.
C21_SweepNeverAborts ==
    /\ (exited.hook = CLEANUP_JS /\ exited.sessionId = "")
          => /\ exited.code = 0
             /\ \A f \in DOMAIN tmpdir : SweepMatches(f) => f \in OtherUsersFiles
    /\ exited.hook = SETUP
          => /\ exited.code = 0
             /\ \A f \in DOMAIN tmpdir : UninstallMatches(f) => f \in OtherUsersFiles

----------------------------------------------------------------------------
(* Run to completion *)

\* The storage operations a process in flight has yet to perform: the
\* write of the Snapshot Writer; the read and the write of the counter file
\* and the read of the bridge file of the Event Counter; one unlink per name
\* left on the list of a Session Reaper or of the uninstall.
StorageOpsLeft(rec) ==
    CASE rec.pc = "idle"          -> 0
      [] rec.pc = "writeFileSync" -> 1
      [] rec.pc = "readCounter"   -> 3
      [] rec.pc = "writeCounter"  -> 2
      [] rec.pc = "readBridge"    -> 1
      [] rec.pc = "unlinkSync"    -> Len(rec.todo)

\* C22: every invocation ends after a bounded number of storage operations.
\* An invocation starts with at most one operation to go for a Snapshot
\* Writer or a Session Reaper with a key, three for an Event Counter, and
\* fewer than there are files in the directory for a sweep; no step ever
\* adds to what a process in flight has left, every step is the start of a
\* process, a whole invocation, or takes one operation off a process in
\* flight; and every process in flight comes to its end.
C22_BoundedRun ==
    /\ [][/\ \A p \in Procs :
               /\ proc[p].pc # "idle"
                     => StorageOpsLeft(proc'[p]) <= StorageOpsLeft(proc[p])
               /\ (proc[p].pc = "idle" /\ proc'[p].pc # "idle")
                     => /\ proc'[p].hook = STATUSLINE => StorageOpsLeft(proc'[p]) = 1
                        /\ proc'[p].hook = TOOL => StorageOpsLeft(proc'[p]) = 3
                        /\ (proc'[p].hook = CLEANUP_JS /\ proc'[p].sessionId # "")
                              => StorageOpsLeft(proc'[p]) = 1
                        /\ StorageOpsLeft(proc'[p]) < Cardinality(DOMAIN tmpdir) + 3
          /\ \/ \E p \in Procs : StorageOpsLeft(proc'[p]) < StorageOpsLeft(proc[p])
             \/ \E p \in Procs : proc[p].pc = "idle" /\ proc'[p].pc # "idle"
             \/ exited' # NoExit]_vars
    /\ \A p \in Procs : (proc[p].pc # "idle") ~> (proc[p].pc = "idle")

\* A Session Reaper without a session key is in the middle of its sweep,
\* with two names to go, while an Event Counter of "s1" on its fifth call
\* has yet to read the bridge file.
C22_Witness ==
    \E p, q \in Procs :
        /\ proc[p].hook = CLEANUP_JS
        /\ proc[p].sessionId = ""
        /\ proc[p].pc = "unlinkSync"
        /\ Len(proc[p].todo) = 2
        /\ proc[q].hook = TOOL
        /\ proc[q].pc = "readBridge"
        /\ proc[q].count = 5

----------------------------------------------------------------------------
(* Each component writes its own kind of record *)

\* C23: a step of a Snapshot Reader leaves every file as it is; a step of
\* an Event Counter leaves every Snapshot Record as it is, neither creating
\* nor changing nor deleting one; a step of a Snapshot Writer does the same
\* for every Counter Record.
C23_OwnKindOnly ==
    [][/\ exited'.hook = PROMPT => tmpdir' = tmpdir
       /\ exited'.hook = TOOL => Snapshots(tmpdir') = Snapshots(tmpdir)
       /\ exited'.hook = STATUSLINE => Counters(tmpdir') = Counters(tmpdir)
       /\ \A p \in Procs :
             /\ (Acts(p) /\ ActingHook(p) = TOOL)
                   => Snapshots(tmpdir') = Snapshots(tmpdir)
             /\ (Acts(p) /\ ActingHook(p) = STATUSLINE)
                   => Counters(tmpdir') = Counters(tmpdir)]_vars

\* An Event Counter of "s1" has written its notification on the fifth
\* call, and the Snapshot Record of "s1" it read is there beside the
\* Counter Record that now holds 5, as is the Snapshot Record of "s2".
C23_Witness ==
    /\ exited.hook = TOOL
    /\ exited.sessionId = "s1"
    /\ exited.stdout # <<>>
    /\ DOMAIN Snapshots(tmpdir) = {bridgePath("s1"), bridgePath("s2")}
    /\ DOMAIN Counters(tmpdir) = {COUNTER_PREFIX \o "s1"}
    /\ tmpdir[COUNTER_PREFIX \o "s1"] = PlainText("5")

----------------------------------------------------------------------------
(* Tool hooks without a session key *)

\* C24 as stated: a step of an Event Counter whose event carries no
\* session_id leaves the Counter Record of every session key of the host as
\* it is, and no such Event Counter writes a notification, which it could
\* only make from the Snapshot Record a Snapshot Writer stored for a key of
\* the host.  Here for the keys whose session has a Snapshot Record.
C24_KeylessApart ==
    [][\A p \in Procs :
          (/\ Acts(p)
           /\ ActingHook(p) = TOOL
           /\ ~(IF proc[p].pc # "idle" THEN proc[p].keyed ELSE proc'[p].keyed))
          => /\ \A k \in HostKeys :
                   bridgePath(k) \in DOMAIN tmpdir
                   => Records(tmpdir', k) = Records(tmpdir, k)
             /\ exited'.hook = TOOL => exited'.stdout = <<>>]_vars

----------------------------------------------------------------------------
(* A count that could not be written *)

\* C25 as stated: when the write of the counter file throws, the file is
\* left as it was and the Event Counter exits with code 0; and when it
\* writes a notification, the count the file holds after the invocation is
\* divisible by EVERY_N.
C25_OnlyPersisted ==
    [][\A p \in Procs :
          /\ (proc[p].pc = "writeCounter" /\ Acts(p)
                 /\ ("unsaved" \in DOMAIN proc'[p] \/ "unsaved" \in DOMAIN exited'))
                => /\ tmpdir' = tmpdir
                   /\ exited' # NoExit => exited'.code = 0
          /\ (proc[p].pc = "readBridge" /\ Acts(p) /\ "unsaved" \in DOMAIN proc[p])
                => /\ exited'.code = 0
                   /\ exited'.stdout # <<>>
                         => ReadCount(tmpdir', proc[p].sessionId) % EVERY_N = 0]_vars

\* C25, amended: when the write of the counter file throws, the file is
\* left as it was and the Event Counter exits with code 0; it goes by the
\* count in memory, one more than the count it read: off the sampling
\* boundary it writes nothing, on it it writes a notification exactly if
\* the bridge file is there and parses, and the notification carries the
\* count that was not stored.
C25_CountInMemory ==
    [][\A p \in Procs :
          /\ (proc[p].pc = "writeCounter" /\ Acts(p)
                 /\ ("unsaved" \in DOMAIN proc'[p] \/ "unsaved" \in DOMAIN exited'))
                => /\ tmpdir' = tmpdir
                   /\ exited' # NoExit
                         => /\ exited'.code = 0
                            /\ exited'.stdout = <<>>
                            /\ proc[p].count % 5 # 0
                   /\ exited' = NoExit
                         => /\ proc[p].count % 5 = 0
                            /\ proc'[p].pc = "readBridge"
                            /\ proc'[p].count = proc[p].count
          /\ (proc[p].pc = "readBridge" /\ Acts(p) /\ "unsaved" \in DOMAIN proc[p])
                => /\ tmpdir' = tmpdir
                   /\ exited'.code = 0
                   /\ proc[p].count % 5 = 0
                   /\ exited'.stdout # <<>>
                         <=> /\ bridgePath(proc[p].sessionId) \in DOMAIN tmpdir
                             /\ JSONparse(tmpdir[bridgePath(proc[p].sessionId)]).parse
                                   = "object"
                   /\ exited'.stdout # <<>>
                         => exited'.stdout[1].count = proc[p].count]_vars

\* The Event Counter of "s1" has written the notification of its fifth
\* call, yet the counter file still holds 4: the write of 5 had thrown.
C25_Witness ==
    /\ exited.hook = TOOL
    /\ exited.sessionId = "s1"
    /\ exited.stdout # <<>>
    /\ exited.stdout[1].count = 5
    /\ counterFile("s1") \in DOMAIN tmpdir
    /\ tmpdir[counterFile("s1")] = PlainText("4")

====
